---- MODULE Spec2Model ----
(***************************************************************************)
(* Session establishment of the geph4 client tunnel:                       *)
(*   get_session (assembler, initial dial tasks, healer task),             *)
(*   connect_once (pipe dialer) and parse_independent_endpoint,            *)
(* all of src/src/connect/tunnel/getsess.rs.                               *)
(***************************************************************************)
EXTENDS Integers, Sequences, FiniteSets, TLC

(* ------------------------------------------------------------------ *)
(* Bounds                                                              *)
(* ------------------------------------------------------------------ *)

\* longest bridge list the directory returns
MaxBridges ==
  2

\* longest text that follows the key part of an endpoint string
MaxTail ==
  5

(* ------------------------------------------------------------------ *)
(* Program constants                                                   *)
(* ------------------------------------------------------------------ *)

\* <[u8; 32]>::try_from : a public key is 32 bytes
PkBytes ==
  32

(* ------------------------------------------------------------------ *)
(* Bridge descriptors                                                  *)
(* ------------------------------------------------------------------ *)

\* A key (ObfsUdpPublic or MuxPublic) is one symbol; a sosistab_key blob is
\* a sequence of symbols.
Blob(tk, mk) ==
  <<tk, mk>>

\* bincode::deserialize::<(ObfsUdpPublic, MuxPublic)>: two fixed-size keys
\* with no length prefix; a blob that is too short does not decode.
Deserialize(blob) ==
  IF Len(blob) >= 2
    THEN [ok |-> TRUE, val |-> <<blob[1], blob[2]>>]
    ELSE [ok |-> FALSE, val |-> <<>>]

\* The descriptors the directory may hand out.
BridgePool ==
  { [endpoint |-> 1, protocol |-> "sosistab2-obfsudp",
     sosistab_key |-> Blob("tk1", "mk1"), alloc_group |-> "direct"],
    [endpoint |-> 2, protocol |-> "sosistab2-obfsudp",
     sosistab_key |-> Blob("tk2", "mk2"), alloc_group |-> "cn1"],
    [endpoint |-> 3, protocol |-> "sosistab2-obfsudp",
     sosistab_key |-> <<"tk3">>, alloc_group |-> "cn1"],
    [endpoint |-> 4, protocol |-> "sosistab2-obfstls",
     sosistab_key |-> <<"cookie">>, alloc_group |-> "cn1"],
    [endpoint |-> 5, protocol |-> "sosistab2-wireguard",
     sosistab_key |-> <<>>, alloc_group |-> "direct"] }

SeqsUpTo(S, n) ==
  UNION { [1..k -> S] : k \in 0..n }

\* every answer get_bridges_v2 can give
BridgeLists ==
  SeqsUpTo(BridgePool, MaxBridges)

\* the values rand::thread_rng().gen::<u128>() is drawn from
SessNums ==
  {11, 22}

NoBridge ==
  [endpoint |-> 0, protocol |-> "", sosistab_key |-> <<>>, alloc_group |-> ""]

(* ------------------------------------------------------------------ *)
(* State                                                               *)
(* ------------------------------------------------------------------ *)

VARIABLES
  use_bridges,   \* binder_tunnel_params.use_bridges
  asm_pc,        \* position of get_session
  result,        \* what get_session returned
  bridges,       \* the bridge list fetched at assembly
  mux,           \* the multiplex: created, peer key, live and dead pipes
  sess_id,       \* the session identifier string
  spawn_idx,     \* position of the spawn loop in the bridge list
  tasks,         \* one entry per bridge: the initial dial task
  attached,      \* every add_pipe call so far
  caller_holds,  \* get_session / its caller holds an Arc of the multiplex
  healer,        \* the healer task: position, dead_count, Arc, bridge dialed,
                 \* and how the last healing step of this wake ended
  endpoint,      \* input of parse_independent_endpoint
  parsed         \* its outcome

vars ==
  <<use_bridges, asm_pc, result, bridges, mux, sess_id, spawn_idx, tasks,
    attached, caller_holds, healer, endpoint, parsed>>

sessVars ==
  <<use_bridges, asm_pc, result, bridges, mux, sess_id, spawn_idx, tasks,
    attached, caller_holds, healer>>

parseVars ==
  <<endpoint, parsed>>

(* ------------------------------------------------------------------ *)
(* Pure parts of get_session                                           *)
(* ------------------------------------------------------------------ *)

None ==
  [some |-> FALSE, val |-> ""]

Some(v) ==
  [some |-> TRUE, val |-> v]

\* mutant: the key scan runs on the policy-filtered list
HasMuxKeyFiltered(bridge) ==
  /\ ~(use_bridges /\ bridge.alloc_group = "direct")
  /\ bridge.protocol = "sosistab2-obfsudp"
  /\ Deserialize(bridge.sosistab_key).ok

\* the descriptor carries a key that get_session can read the MuxPublic from
HasMuxKey(bridge) ==
  /\ bridge.protocol = "sosistab2-obfsudp"
  /\ Deserialize(bridge.sosistab_key).ok

RECURSIVE ScanKeyBreak(_, _, _)
\* mutant: the scan leaves the loop at the first key it reads
ScanKeyBreak(bs, i, seen) ==
  IF i > Len(bs) \/ seen.some
    THEN seen
    ELSE ScanKeyBreak(bs, i + 1,
                      IF HasMuxKey(bs[i])
                        THEN Some(Deserialize(bs[i].sosistab_key).val[2])
                        ELSE seen)

RECURSIVE ScanKey(_, _, _)
\* the loop `for bridge in bridges.iter()` with its accumulator `seen`
ScanKey(bs, i, seen) ==
  IF i > Len(bs)
    THEN seen
    ELSE ScanKey(bs, i + 1,
                 IF HasMuxKey(bs[i])
                   THEN Some(Deserialize(bs[i].sosistab_key).val[2])
                   ELSE seen)

\* e2e_key: the value of `seen` after the scan
ExtractKey(bs) ==
  ScanKey(bs, 1, None)

\* the error get_session leaves with once the bridge list is fetched, "" if none
FetchError(bs) ==
  IF Len(bs) = 0
    THEN "no sosistab2 routes"
    ELSE IF ~ExtractKey(bs).some
      THEN "cannot deduce the sosistab2 MuxPublic of this exit"
      ELSE ""

NoMux ==
  [created |-> FALSE, peer_key |-> "", live |-> 0, dead |-> 0]

\* mutant: the multiplex is built before the bridge list is checked
NewMuxEager(bs) ==
  [created |-> TRUE, peer_key |-> ExtractKey(bs).val, live |-> 0, dead |-> 0]

\* Multiplex::new(MuxSecret::generate(), Some(e2e_key)), reached only past
\* the two error exits
NewMux(bs) ==
  IF FetchError(bs) = ""
    THEN [created |-> TRUE, peer_key |-> ExtractKey(bs).val,
          live |-> 0, dead |-> 0]
    ELSE NoMux

\* format!("sess-{}", n)
FormatSessId(n) ==
  <<"sess-", n>>

\* mutant: the spawn loop without its policy filter
FilterSkipsNothing(use, bridge) ==
  FALSE

\* the `continue` of the spawn loop
FilterSkips(use, bridge) ==
  use /\ bridge.alloc_group = "direct"

\* `let sess_id = sess_id.clone()` : what an initial dial task passes as meta
TaskMeta(sid, i) ==
  sid

\* mutant: `||` for `&&` in the healing step's policy check
HealerPolicyStopEither(use, first) ==
  use \/ first.alloc_group = "direct"

\* mutant: the healing step without its policy check
HealerPolicyStopOff(use, first) ==
  FALSE

\* the early `return Ok(())` of the healing step
HealerPolicyStop(use, first) ==
  use /\ first.alloc_group = "direct"

\* mutant: the healer formats an identifier of its own
HealerMetaFresh(sid) ==
  <<"sess-", 0>>

\* `&sess_id` : what the healer passes as meta
HealerMeta(sid) ==
  sid

(* ------------------------------------------------------------------ *)
(* connect_once                                                        *)
(* ------------------------------------------------------------------ *)

PreConnect(desc) ==
  [kind |-> "PreConnect", addr |-> desc.endpoint, protocol |-> desc.protocol]

\* connect_once up to its first await: the callbacks it fires and either the
\* error it returns or "pending" when the pipe constructor is awaited
ConnectStart(desc) ==
  CASE desc.protocol = "sosistab2-obfsudp" ->
         [cb |-> {PreConnect(desc)},
          res |-> IF Deserialize(desc.sosistab_key).ok
                    THEN "pending" ELSE "cannot decode keys"]
    [] desc.protocol = "sosistab2-obfstls" ->
         [cb |-> {}, res |-> "pending"]
    [] OTHER ->
         [cb |-> {}, res |-> "unknown protocol"]

\* how the awaited pipe constructor under .timeout(10 s) can end
ConnectOutcomes ==
  {"ok", "pipe connection timeout", "dial error"}

\* mutant: add_pipe is called whatever connect_once returned
AttachesAlways(res) ==
  TRUE

\* the match arm of a dial result that calls add_pipe
Attaches(res) ==
  res = "ok"

\* what the log of add_pipe calls keeps of a pipe: the task that dialed it
\* (initial task idx, or the healer), its bridge's allocation group,
\* and the meta string it was dialed with
Pipe(by, idx, desc, meta) ==
  [by |-> by, idx |-> idx, alloc_group |-> desc.alloc_group, meta |-> meta]

\* Multiplex::add_pipe
AddPipe(m) ==
  [m EXCEPT !.live = @ + 1]

(* ------------------------------------------------------------------ *)
(* Reference counting of the Arc<Multiplex>                            *)
(* ------------------------------------------------------------------ *)

IdleTask ==
  [state |-> "none", res |-> "", meta |-> <<>>, cb |-> {}, spawns |-> 0,
   adds |-> 0]

InFlight(t) ==
  t.state \in {"spawned", "connecting"}

Card(b) ==
  IF b THEN 1 ELSE 0

\* mutant: the dial tasks capture no strong reference of their own
StrongCountNoTasks ==
  Card(caller_holds) + Card(healer.holds)

StrongCount ==
  Card(caller_holds)
  + Cardinality({i \in DOMAIN tasks : InFlight(tasks[i])})
  + Card(healer.holds)

\* the status callbacks fired by the initial dial tasks and by the healer's
\* dial in progress
Callbacks ==
  UNION { tasks[i].cb : i \in DOMAIN tasks } \cup healer.cb

\* the multiplex exists and has not been dropped
MuxAlive ==
  mux.created /\ StrongCount > 0

(* ------------------------------------------------------------------ *)
(* Initial state                                                       *)
(* ------------------------------------------------------------------ *)

NoHealer ==
  [pc |-> "none", dead_count |-> 0, holds |-> FALSE,
   first |-> NoBridge, meta |-> <<>>, cb |-> {}, last |-> "none"]

SessInit ==
  /\ use_bridges \in BOOLEAN
  /\ asm_pc = "get_exit"
  /\ result = ""
  /\ bridges = <<>>
  /\ mux = NoMux
  /\ sess_id = <<>>
  /\ spawn_idx = 1
  /\ tasks = <<>>
  /\ attached = {}
  /\ caller_holds = FALSE
  /\ healer = NoHealer

ParseIdle ==
  /\ endpoint = <<>>
  /\ parsed = [status |-> "not called", addr |-> <<>>, pk |-> <<>>]

Init ==
  /\ SessInit
  /\ ParseIdle

(* ------------------------------------------------------------------ *)
(* get_session, the assembler                                          *)
(* ------------------------------------------------------------------ *)

\* ccache.get_closest_exit(..).await.context("cannot get closest exit")?
AsmGetExit ==
  /\ asm_pc = "get_exit"
  /\ \E ok \in BOOLEAN :
       IF ok
         THEN /\ asm_pc' = "get_bridges"
              /\ result' = result
         ELSE /\ asm_pc' = "done"
              /\ result' = "cannot get closest exit"
  /\ UNCHANGED <<use_bridges, bridges, mux, sess_id, spawn_idx, tasks,
                 attached, caller_holds, healer, parseVars>>

\* get_bridges_v2 failed
AsmGetBridgesErr ==
  /\ asm_pc = "get_bridges"
  /\ asm_pc' = "done"
  /\ result' = "cannot get bridges"
  /\ UNCHANGED <<use_bridges, bridges, mux, sess_id, spawn_idx, tasks,
                 attached, caller_holds, healer, parseVars>>

\* get_bridges_v2 answered: the emptiness check, the key scan, Multiplex::new
\* and the session id, which run without an await
AsmGetBridges ==
  /\ asm_pc = "get_bridges"
  /\ \E bs \in BridgeLists, n \in SessNums :
       /\ bridges' = bs
       /\ mux' = NewMux(bs)
       /\ caller_holds' = mux'.created
       /\ IF FetchError(bs) # ""
            THEN /\ asm_pc' = "done"
                 /\ result' = FetchError(bs)
                 /\ UNCHANGED <<sess_id, tasks>>
            ELSE /\ asm_pc' = "spawn"
                 /\ result' = result
                 /\ sess_id' = FormatSessId(n)
                 /\ tasks' = [i \in 1..Len(bs) |-> IdleTask]
  /\ UNCHANGED <<use_bridges, spawn_idx, attached, healer,
                 parseVars>>

\* one iteration of `for bridge in bridges.into_iter()`
AsmSpawn ==
  /\ asm_pc = "spawn"
  /\ spawn_idx <= Len(bridges)
  /\ tasks' = IF FilterSkips(use_bridges, bridges[spawn_idx])
                THEN tasks
                ELSE [tasks EXCEPT ![spawn_idx] =
                        [@ EXCEPT !.state = "spawned",
                                  !.meta = TaskMeta(sess_id, spawn_idx),
                                  !.spawns = @ + 1]]
  /\ spawn_idx' = spawn_idx + 1
  /\ UNCHANGED <<use_bridges, asm_pc, result, bridges, mux, sess_id,
                 attached, caller_holds, healer, parseVars>>

\* mutant: the healer loop waits at its end, so its first round runs ungated
AsmInstallHealerUngated ==
  /\ asm_pc = "spawn"
  /\ spawn_idx > Len(bridges)
  /\ healer' = [NoHealer EXCEPT !.pc = "upgrade"]
  /\ asm_pc' = "return"
  /\ UNCHANGED <<use_bridges, result, bridges, mux, sess_id, spawn_idx,
                 tasks, attached, caller_holds, parseVars>>

\* Arc::downgrade, smolscale::spawn of the healer, add_drop_friend
AsmInstallHealer ==
  /\ asm_pc = "spawn"
  /\ spawn_idx > Len(bridges)
  /\ healer' = [NoHealer EXCEPT !.pc = "wait_activity"]
  /\ asm_pc' = "return"
  /\ UNCHANGED <<use_bridges, result, bridges, mux, sess_id, spawn_idx,
                 tasks, attached, caller_holds, parseVars>>

\* mutant: get_session joins its dial tasks before it returns
AsmReturnAfterDials ==
  /\ asm_pc = "return"
  /\ \A i \in DOMAIN tasks : ~InFlight(tasks[i])
  /\ asm_pc' = "done"
  /\ result' = "Ok"
  /\ UNCHANGED <<use_bridges, bridges, mux, sess_id, spawn_idx, tasks,
                 attached, caller_holds, healer, parseVars>>

\* Ok(multiplex)
AsmReturn ==
  /\ asm_pc = "return"
  /\ asm_pc' = "done"
  /\ result' = "Ok"
  /\ UNCHANGED <<use_bridges, bridges, mux, sess_id, spawn_idx, tasks,
                 attached, caller_holds, healer, parseVars>>

\* the caller lets go of the Arc<Multiplex> it was given
CallerDrop ==
  /\ asm_pc = "done"
  /\ result = "Ok"
  /\ caller_holds
  /\ caller_holds' = FALSE
  /\ UNCHANGED <<use_bridges, asm_pc, result, bridges, mux, sess_id,
                 spawn_idx, tasks, attached, healer, parseVars>>

(* ------------------------------------------------------------------ *)
(* The initial dial tasks                                              *)
(* ------------------------------------------------------------------ *)

\* the task starts connect_once and runs to the pipe constructor's await, or
\* to the Err arm when connect_once fails before it
DialStart(i) ==
  /\ i \in DOMAIN tasks
  /\ tasks[i].state = "spawned"
  /\ LET c == ConnectStart(bridges[i])
     IN  tasks' = [tasks EXCEPT ![i] =
                     IF c.res = "pending"
                       THEN [@ EXCEPT !.state = "connecting", !.cb = c.cb]
                       ELSE [@ EXCEPT !.state = "done", !.cb = c.cb,
                                      !.res = c.res]]
  /\ UNCHANGED <<use_bridges, asm_pc, result, bridges, mux, sess_id,
                 spawn_idx, attached, caller_holds, healer, parseVars>>

\* the pipe constructor resolves; the match on connect_once's result
DialFinish(i) ==
  /\ i \in DOMAIN tasks
  /\ tasks[i].state = "connecting"
  /\ \E out \in ConnectOutcomes :
       IF Attaches(out)
         THEN /\ mux' = AddPipe(mux)
              /\ attached' = attached \cup
                   {Pipe("init", i, bridges[i], tasks[i].meta)}
              /\ tasks' = [tasks EXCEPT ![i] =
                             [@ EXCEPT !.state = "done", !.res = out,
                                       !.adds = @ + 1]]
         ELSE /\ tasks' = [tasks EXCEPT ![i] =
                             [@ EXCEPT !.state = "done", !.res = out]]
              /\ UNCHANGED <<mux, attached>>
  /\ UNCHANGED <<use_bridges, asm_pc, result, bridges, sess_id, spawn_idx,
                 caller_holds, healer, parseVars>>

\* a pipe of the multiplex dies
PipeDie ==
  /\ MuxAlive
  /\ mux.live > 0
  /\ mux' = [mux EXCEPT !.live = @ - 1, !.dead = @ + 1]
  /\ UNCHANGED <<use_bridges, asm_pc, result, bridges, sess_id, spawn_idx,
                 tasks, attached, caller_holds, healer, parseVars>>

(* ------------------------------------------------------------------ *)
(* The healer task                                                     *)
(* ------------------------------------------------------------------ *)

Perms(n) ==
  { p \in [1..n -> 1..n] : \A i, j \in 1..n : p[i] = p[j] => i = j }

\* bridges.shuffle(&mut rand::thread_rng()): every order of the list
Shuffles(bs) ==
  { [i \in 1..Len(bs) |-> bs[p[i]]] : p \in Perms(Len(bs)) }

Shuffled(resps) ==
  UNION { Shuffles(bs) : bs \in resps }

\* bridges.first()
First(bs) ==
  IF Len(bs) = 0 THEN [some |-> FALSE, val |-> NoBridge] ELSE Some(bs[1])

\* what bridges.first() can be once an answer from resps is shuffled
Firsts(resps) ==
  { First(sh) : sh \in Shuffled(resps) }

\* the same, over every answer of get_bridges_v2
RefreshFirsts ==
  Firsts(BridgeLists)

\* `dead_count -= 1`
AfterReplacement(dead_count) ==
  dead_count - 1

\* wait_activity(Duration::from_secs(300)).await resolves.  The task is the
\* multiplex's drop friend: once the multiplex is dropped it is cancelled at
\* the await it is suspended in and resumes no more.
HealerWaitActivity ==
  /\ healer.pc = "wait_activity"
  /\ MuxAlive
  /\ healer' = [healer EXCEPT !.pc = "sleep"]
  /\ UNCHANGED <<use_bridges, asm_pc, result, bridges, mux, sess_id,
                 spawn_idx, tasks, attached, caller_holds,
                 parseVars>>

\* smol::Timer::after(interval).await resolves
HealerSleep ==
  /\ healer.pc = "sleep"
  /\ MuxAlive
  /\ healer' = [healer EXCEPT !.pc = "upgrade"]
  /\ UNCHANGED <<use_bridges, asm_pc, result, bridges, mux, sess_id,
                 spawn_idx, tasks, attached, caller_holds,
                 parseVars>>

\* weak_multiplex.upgrade(); on Some, dead_count += clear_dead_pipes();
\* on None the `if let` has no else and the loop goes round
HealerUpgrade ==
  /\ healer.pc = "upgrade"
  /\ IF MuxAlive
       THEN /\ healer' = [healer EXCEPT !.pc = "while", !.holds = TRUE,
                                        !.dead_count = @ + mux.dead]
            /\ mux' = [mux EXCEPT !.dead = 0]
       ELSE /\ healer' = [healer EXCEPT !.pc = "wait_activity"]
            /\ mux' = mux
  /\ UNCHANGED <<use_bridges, asm_pc, result, bridges, sess_id, spawn_idx,
                 tasks, attached, caller_holds, parseVars>>

\* mutant: the upgraded Arc is bound outside the loop and outlives the round
HealerWhileKeepsArc ==
  /\ healer.pc = "while"
  /\ healer' = IF healer.dead_count > 0
                 THEN [healer EXCEPT !.pc = "refresh", !.last = "none"]
                 ELSE [healer EXCEPT !.pc = "wait_activity", !.last = "none"]
  /\ UNCHANGED <<use_bridges, asm_pc, result, bridges, mux, sess_id,
                 spawn_idx, tasks, attached, caller_holds,
                 parseVars>>

\* `while dead_count > 0`: enter the healing step and call the directory, or
\* leave the `if let` block, dropping the upgraded Arc
HealerWhile ==
  /\ healer.pc = "while"
  /\ healer' = IF healer.dead_count > 0
                 THEN [healer EXCEPT !.pc = "refresh", !.last = "none"]
                 ELSE [healer EXCEPT !.pc = "wait_activity", !.holds = FALSE,
                                     !.last = "none"]
  /\ UNCHANGED <<use_bridges, asm_pc, result, bridges, mux, sess_id,
                 spawn_idx, tasks, attached, caller_holds,
                 parseVars>>

\* get_bridges_v2 fails inside the healing step: logged, back to the `while`
HealerRefreshErr ==
  /\ healer.pc = "refresh"
  /\ healer' = [healer EXCEPT !.pc = "while", !.last = "failed"]
  /\ UNCHANGED <<use_bridges, asm_pc, result, bridges, mux, sess_id,
                 spawn_idx, tasks, attached, caller_holds,
                 parseVars>>

\* the healing step from `bridges.first()` to connect_once's await.
\* healer.last keeps how the `fallible` block ended: "stopped" by the early
\* return, "failed" with an Err that is logged, "counted" past dead_count -= 1
HealStep(first) ==
  /\ healer.pc = "refresh"
  /\ IF ~first.some
       THEN healer' = [healer EXCEPT !.pc = "while", !.last = "counted",
                                     !.dead_count = AfterReplacement(@)]
       ELSE IF HealerPolicyStop(use_bridges, first.val)
         THEN healer' = [healer EXCEPT !.pc = "while", !.last = "stopped"]
         ELSE LET c == ConnectStart(first.val)
              IN  healer' = IF c.res = "pending"
                    THEN [healer EXCEPT !.pc = "dial", !.first = first.val,
                                        !.meta = HealerMeta(sess_id),
                                        !.cb = c.cb]
                    ELSE [healer EXCEPT !.pc = "while", !.last = "failed"]
  /\ UNCHANGED <<use_bridges, asm_pc, result, bridges, mux, sess_id,
                 spawn_idx, tasks, attached, caller_holds, parseVars>>

\* get_bridges_v2 answers and the list is shuffled: firsts is what
\* bridges.first() can then be
HealerRefresh(firsts) ==
  \E first \in firsts : HealStep(first)

\* the replacement dial resolves: `?` on failure, else add_pipe and
\* dead_count -= 1
HealerDialFinish(outs) ==
  /\ healer.pc = "dial"
  /\ \E out \in outs :
       IF out = "ok"
         THEN /\ mux' = AddPipe(mux)
              /\ attached' = attached \cup
                   {Pipe("heal", 0, healer.first, healer.meta)}
              /\ healer' = [healer EXCEPT !.pc = "while", !.last = "counted",
                                          !.dead_count = AfterReplacement(@),
                                          !.first = NoBridge, !.meta = <<>>,
                                          !.cb = {}]
         ELSE /\ healer' = [healer EXCEPT !.pc = "while", !.last = "failed",
                                          !.first = NoBridge, !.meta = <<>>,
                                          !.cb = {}]
              /\ UNCHANGED <<mux, attached>>
  /\ UNCHANGED <<use_bridges, asm_pc, result, bridges, sess_id, spawn_idx,
                 tasks, caller_holds, parseVars>>

\* the multiplex was dropped, and its drop friends with it
HealerCancel ==
  /\ mux.created
  /\ ~MuxAlive
  /\ healer.pc \in {"wait_activity", "sleep"}
  /\ healer' = [healer EXCEPT !.pc = "cancelled"]
  /\ UNCHANGED <<use_bridges, asm_pc, result, bridges, mux, sess_id,
                 spawn_idx, tasks, attached, caller_holds,
                 parseVars>>

(* ------------------------------------------------------------------ *)
(* Specification of get_session                                        *)
(* ------------------------------------------------------------------ *)

Next ==
  \/ AsmGetExit
  \/ AsmGetBridgesErr
  \/ AsmGetBridges
  \/ AsmSpawn
  \/ AsmInstallHealer
  \/ AsmReturn
  \/ CallerDrop
  \/ \E i \in 1..MaxBridges : DialStart(i)
  \/ \E i \in 1..MaxBridges : DialFinish(i)
  \/ PipeDie
  \/ HealerWaitActivity
  \/ HealerSleep
  \/ HealerUpgrade
  \/ HealerWhile
  \/ HealerRefreshErr
  \/ HealerRefresh(RefreshFirsts)
  \/ HealerDialFinish(ConnectOutcomes)
  \/ HealerCancel

Spec ==
  Init /\ [][Next]_vars

(* ------------------------------------------------------------------ *)
(* parse_independent_endpoint                                          *)
(* ------------------------------------------------------------------ *)

\* The characters of an endpoint string, one of each kind the parser tells
\* apart: a hex letter, a digit (hex and decimal), a letter that is not hex,
\* and the two separators.
Chars ==
  {"a", "1", "g", "@", ":"}

HexChars ==
  {"a", "1"}

Digits ==
  {"1"}

RECURSIVE Rep(_, _)
Rep(c, n) ==
  IF n = 0 THEN <<>> ELSE <<c>> \o Rep(c, n - 1)

\* lengths of the run of hex letters in the key part of an input
PadLens ==
  {0, 1, 2 * PkBytes - 1, 2 * PkBytes}

\* the inputs: at most one arbitrary character, a run of hex letters, and an
\* arbitrary tail of at most maxTail characters
EndpointInputs(maxTail) ==
  { h \o Rep("a", n) \o t :
      h \in SeqsUpTo(Chars, 1), n \in PadLens, t \in SeqsUpTo(Chars, maxTail) }

RECURSIVE SplitFrom(_, _, _, _)
SplitFrom(str, sep, i, cur) ==
  IF i > Len(str)
    THEN <<cur>>
    ELSE IF str[i] = sep
      THEN <<cur>> \o SplitFrom(str, sep, i + 1, <<>>)
      ELSE SplitFrom(str, sep, i + 1, Append(cur, str[i]))

\* endpoint.split('@').collect::<Vec<_>>() : never empty
Split(str, sep) ==
  SplitFrom(str, sep, 1, <<>>)

\* hex::decode : an odd length or a character that is not hex is an error,
\* else one byte per pair of characters
HexDecode(str) ==
  IF Len(str) % 2 = 1 \/ \E i \in 1..Len(str) : str[i] \notin HexChars
    THEN [ok |-> FALSE, bytes |-> <<>>]
    ELSE [ok |-> TRUE,
          bytes |-> [i \in 1..(Len(str) \div 2) |->
                       <<str[2 * i - 1], str[2 * i]>>]]

\* <[u8; 32]>::try_from(Vec<u8>)
TryFromArray(bytes) ==
  Len(bytes) = PkBytes

\* str::parse::<SocketAddr>, its grammar reduced to digits ':' digits
ParseAddr(str) ==
  LET colons == { i \in 1..Len(str) : str[i] = ":" }
  IN  IF /\ Cardinality(colons) = 1
         /\ \A i \in 1..Len(str) : str[i] \in Digits \cup {":"}
         /\ str[1] # ":"
         /\ str[Len(str)] # ":"
        THEN [ok |-> TRUE, addr |-> str]
        ELSE [ok |-> FALSE, addr |-> <<>>]

Failure(why) ==
  [status |-> why, addr |-> <<>>, pk |-> <<>>]

\* the body of parse_independent_endpoint, in the order it evaluates
ParseIndependentEndpoint(str) ==
  LET pk_and_url == Split(str, "@")
      hex == HexDecode(pk_and_url[1])
  IN  IF ~hex.ok
        THEN Failure("PK is not hex")
        ELSE IF ~TryFromArray(hex.bytes)
          THEN Failure("panic: unwrap on Err")
          ELSE IF Len(pk_and_url) < 2
            THEN Failure("URL not in form PK@host:port")
            ELSE IF ~ParseAddr(pk_and_url[2]).ok
              THEN Failure("cannot parse host:port")
              ELSE [status |-> "Ok", addr |-> ParseAddr(pk_and_url[2]).addr,
                    pk |-> hex.bytes]

NotCalled ==
  Failure("not called")

SessIdle ==
  /\ SessInit
  /\ use_bridges = FALSE

ParseInit ==
  /\ SessIdle
  /\ endpoint \in EndpointInputs(MaxTail)
  /\ parsed = NotCalled

ParseCall ==
  /\ parsed = NotCalled
  /\ parsed' = ParseIndependentEndpoint(endpoint)
  /\ UNCHANGED <<endpoint, sessVars>>

ParseNext ==
  ParseCall

ParseSpec ==
  ParseInit /\ [][ParseNext]_vars

(* ------------------------------------------------------------------ *)
(* Properties                                                          *)
(* ------------------------------------------------------------------ *)

InitPipes ==
  { p \in attached : p.by = "init" }

HealPipes ==
  { p \in attached : p.by = "heal" }

\* C1 (filter soundness): under use_bridges, no pipe attached to the
\* multiplex, by an initial dial task or by the healer, was dialed from a
\* bridge descriptor whose alloc_group is "direct".
FilterSoundness ==
  use_bridges => \A p \in attached : p.alloc_group # "direct"

\* use_bridges is on, the assembly list holds a direct bridge, and both an
\* initial dial and a healer dial have attached a pipe
FilterSoundnessWitness ==
  /\ use_bridges
  /\ \E i \in DOMAIN bridges : bridges[i].alloc_group = "direct"
  /\ InitPipes # {}
  /\ HealPipes # {}

\* C2 (session-id stability): the session identifier is set once and never
\* changes, and every connect_once call, of an initial dial task or of the
\* healer, and so every attached pipe, carries that identifier as its meta.
SessionIdStability ==
  /\ [](/\ \A p \in attached : p.meta = sess_id
        /\ \A i \in DOMAIN tasks :
             tasks[i].state # "none" => tasks[i].meta = sess_id
        /\ healer.pc = "dial" => healer.meta = sess_id)
  /\ [][sess_id # <<>> => sess_id' = sess_id]_vars

\* a healed pipe sits next to an initial one after the healer went round
SessionIdStabilityWitness ==
  /\ \E p \in InitPipes, q \in HealPipes : p.meta = q.meta
  /\ healer.pc = "wait_activity"
  /\ mux.live >= 2

\* C3 (the assembler never waits on a dial): past the key extraction every
\* step of get_session, the spawn loop, installing the healer and returning
\* Ok, can be taken whatever state the spawned dials are in.
NeverWaitsOnDial ==
  /\ asm_pc = "spawn" => ENABLED (AsmSpawn \/ AsmInstallHealer)
  /\ asm_pc = "return" => ENABLED AsmReturn

\* get_session has returned Ok, the multiplex holds no pipe, dials in flight
ReturnedEmptyWitness ==
  /\ asm_pc = "done"
  /\ result = "Ok"
  /\ mux.live = 0
  /\ attached = {}
  /\ \E i \in DOMAIN tasks : InFlight(tasks[i])

\* the failures connect_once can end with
DialFailures ==
  {"unknown protocol", "cannot decode keys", "pipe connection timeout",
   "dial error"}

\* C5 (initial dial failures are isolated): a finished initial dial that
\* failed has attached no pipe, a finished one that succeeded has attached
\* exactly its own pipe, and get_session's result is Ok whatever the dials
\* did.
DialFailuresIsolated ==
  /\ \A i \in DOMAIN tasks :
       tasks[i].state = "done" =>
         /\ tasks[i].res \in DialFailures \cup {"ok"}
         /\ tasks[i].res \in DialFailures =>
              /\ tasks[i].adds = 0
              /\ \A p \in InitPipes : p.idx # i
         /\ tasks[i].res = "ok" =>
              /\ tasks[i].adds = 1
              /\ \E p \in InitPipes : p.idx = i
  /\ (asm_pc = "done" /\ mux.created) => result = "Ok"
  /\ Cardinality(InitPipes) =
       Cardinality({i \in DOMAIN tasks : tasks[i].res = "ok"})

\* one dial failed, another succeeded and attached its pipe
DialFailuresIsolatedWitness ==
  /\ result = "Ok"
  /\ \E i, j \in DOMAIN tasks :
       /\ tasks[i].res \in DialFailures
       /\ tasks[j].res = "ok"
       /\ \E p \in InitPipes : p.idx = j

\* the errors get_session returns
SessionErrors ==
  {"cannot get closest exit", "cannot get bridges", "no sosistab2 routes",
   "cannot deduce the sosistab2 MuxPublic of this exit"}

\* C6: when get_session returns an error, no multiplex was created, no dial
\* task was spawned, no status callback fired, no pipe was attached and no
\* healer exists.
ErrorsBeforeMultiplex ==
  (asm_pc = "done" /\ result # "Ok") =>
    /\ result \in SessionErrors
    /\ ~mux.created
    /\ ~caller_holds
    /\ tasks = <<>>
    /\ Callbacks = {}
    /\ attached = {}
    /\ healer.pc = "none"

\* get_session failed on a list that is not empty but yields no key
NoKeyWitness ==
  /\ asm_pc = "done"
  /\ result = "cannot deduce the sosistab2 MuxPublic of this exit"
  /\ Len(bridges) > 0

\* positions of the descriptors with tag sosistab2-obfsudp and a key blob
\* that decodes as (transport key, multiplex key)
Qualifying ==
  { i \in DOMAIN bridges :
      /\ bridges[i].protocol = "sosistab2-obfsudp"
      /\ Len(bridges[i].sosistab_key) >= 2 }

Min(S) ==
  CHOOSE x \in S : \A y \in S : x <= y

Max(S) ==
  CHOOSE x \in S : \A y \in S : x >= y

\* get_session got a bridge list that is not empty and went on from there
KeyScanned ==
  Len(bridges) > 0 /\ asm_pc # "get_bridges"

\* C7 as stated: the multiplex key is that of the FIRST qualifying
\* descriptor, and NoKey is returned exactly when none qualifies.
KeyOfFirstQualifying ==
  KeyScanned =>
    /\ Qualifying = {} <=>
         result = "cannot deduce the sosistab2 MuxPublic of this exit"
    /\ Qualifying # {} =>
         /\ mux.created
         /\ mux.peer_key = bridges[Min(Qualifying)].sosistab_key[2]

\* C7 as amended: the multiplex key is that of the LAST qualifying
\* descriptor of the list, and NoKey is returned exactly when none
\* qualifies.
KeyOfLastQualifying ==
  KeyScanned =>
    /\ Qualifying = {} <=>
         result = "cannot deduce the sosistab2 MuxPublic of this exit"
    /\ Qualifying # {} =>
         /\ mux.created
         /\ mux.peer_key = bridges[Max(Qualifying)].sosistab_key[2]

\* two qualifying descriptors with different multiplex keys
TwoKeysWitness ==
  /\ mux.created
  /\ \E i, j \in Qualifying :
       bridges[i].sosistab_key[2] # bridges[j].sosistab_key[2]

(* ------------------------------------------------------------------ *)
(* Fair scheduling of get_session and its dial tasks                   *)
(* ------------------------------------------------------------------ *)

\* The executor runs every spawned task, get_session has no await past the
\* directory calls, and every pipe constructor is awaited under a 10 s
\* timeout, so each of these steps is taken once it can be.
FairSpec ==
  /\ Init
  /\ [][Next]_vars
  /\ WF_vars(AsmSpawn)
  /\ WF_vars(AsmInstallHealer)
  /\ WF_vars(AsmReturn)
  /\ \A i \in 1..MaxBridges : WF_vars(DialStart(i)) /\ WF_vars(DialFinish(i))

\* the bridge at position i passes the policy filter
Survives(i) ==
  ~(use_bridges /\ bridges[i].alloc_group = "direct")

\* C4: the spawn loop spawns exactly one dial task for each bridge that
\* passes the policy filter and none for the others, the multiplex carries
\* the extracted key as its peer key, a dial calls add_pipe once when it
\* succeeds, and every spawned dial comes to an end: so if all succeed,
\* add_pipe is eventually called exactly once per surviving bridge.
OneDialPerSurvivor ==
  /\ [](mux.created =>
          /\ DOMAIN tasks = DOMAIN bridges
          /\ mux.peer_key = ExtractKey(bridges).val
          /\ \A i \in DOMAIN tasks :
               /\ tasks[i].spawns = IF i < spawn_idx /\ Survives(i)
                                      THEN 1 ELSE 0
               /\ tasks[i].adds = IF tasks[i].res = "ok" THEN 1 ELSE 0
               /\ tasks[i].adds <= tasks[i].spawns)
  /\ mux.created ~>
       (/\ asm_pc = "done"
        /\ \A i \in DOMAIN tasks :
             tasks[i].state = IF Survives(i) THEN "done" ELSE "none")

\* one bridge was filtered out, every other was dialed with success and
\* add_pipe was called once for each
AllDialsSucceededWitness ==
  /\ asm_pc = "done"
  /\ Len(bridges) = MaxBridges
  /\ \E i \in DOMAIN tasks : ~Survives(i) /\ tasks[i].spawns = 0
  /\ \E i \in DOMAIN tasks : Survives(i)
  /\ \A i \in DOMAIN tasks :
       Survives(i) => tasks[i].res = "ok" /\ tasks[i].adds = 1
  /\ mux.live = Cardinality({i \in DOMAIN tasks : Survives(i)})

\* the caller has dropped its Arc and no initial dial task is left to hold one
ExternalRefsDropped ==
  /\ mux.created
  /\ asm_pc = "done"
  /\ ~caller_holds
  /\ \A i \in DOMAIN tasks : ~InFlight(tasks[i])

\* C8 (no cycle) as stated: once the last external strong reference is
\* dropped, the healer issues no directory call and starts no dial, in
\* whatever state the drop found it.
NoDirectoryCallAfterDrop ==
  [][ExternalRefsDropped =>
       ~(healer'.pc \in {"refresh", "dial"} /\ healer'.pc # healer.pc)]_vars

(* ------------------------------------------------------------------ *)
(* The healer with a live multiplex, an active user and a directory    *)
(* that serves enough good bridges                                     *)
(* ------------------------------------------------------------------ *)

\* the bridge passes the policy and connect_once gets as far as dialing it
GoodBridge(use, bridge) ==
  /\ ~(use /\ bridge.alloc_group = "direct")
  /\ bridge.protocol \in {"sosistab2-obfsudp", "sosistab2-obfstls"}
  /\ bridge.protocol = "sosistab2-obfsudp" => Len(bridge.sosistab_key) >= 2

\* the answers with at least k good bridges
LiveLists(use, k) ==
  { bs \in BridgeLists :
      Cardinality({i \in DOMAIN bs : GoodBridge(use, bs[i])}) >= k }

\* what bridges.first() can be when k pipes are to be replaced
LiveFirsts ==
  [use \in BOOLEAN, k \in 0..MaxBridges |-> Firsts(LiveLists(use, k))]

LiveRefresh ==
  HealerRefresh(LiveFirsts[use_bridges, healer.dead_count])

\* the shuffle puts a good bridge first
GoodPick ==
  \E first \in LiveFirsts[use_bridges, healer.dead_count] :
    /\ first.some
    /\ GoodBridge(use_bridges, first.val)
    /\ HealStep(first)

\* the dial of a good bridge succeeds
LiveDialFinish ==
  HealerDialFinish({"ok"})

LiveNext ==
  \/ AsmGetExit
  \/ AsmGetBridgesErr
  \/ AsmGetBridges
  \/ AsmSpawn
  \/ AsmInstallHealer
  \/ AsmReturn
  \/ \E i \in 1..MaxBridges : DialStart(i)
  \/ \E i \in 1..MaxBridges : DialFinish(i)
  \/ PipeDie
  \/ HealerWaitActivity
  \/ HealerSleep
  \/ HealerUpgrade
  \/ HealerWhile
  \/ LiveRefresh
  \/ LiveDialFinish

\* The healer task is scheduled fairly, wait_activity resolves because the
\* user is active, and the shuffle is fair: an order that can come up again
\* and again does come up.
LiveSpec ==
  /\ Init
  /\ [][LiveNext]_vars
  /\ WF_vars(HealerWaitActivity)
  /\ WF_vars(HealerSleep)
  /\ WF_vars(HealerUpgrade)
  /\ WF_vars(HealerWhile)
  /\ WF_vars(LiveDialFinish)
  /\ SF_vars(GoodPick)

\* C9 (healer liveness): with the multiplex alive, the user active and a
\* directory whose every answer holds at least dead_count good bridges, a
\* positive dead_count returns to 0, and it goes down only one at a time,
\* each time with a replacement pipe attached.
HealerLiveness ==
  /\ (healer.dead_count > 0) ~> (healer.dead_count = 0)
  /\ [][healer'.dead_count < healer.dead_count =>
          /\ healer'.dead_count = healer.dead_count - 1
          /\ mux'.live = mux.live + 1
          /\ HealPipes' # {}]_vars

\* the healer has replaced what died and the multiplex is full again
HealedWitness ==
  /\ healer.pc = "while"
  /\ healer.dead_count = 0
  /\ HealPipes # {}
  /\ mux.dead = 0
  /\ mux.live = MaxBridges

(* ------------------------------------------------------------------ *)
(* Properties of parse_independent_endpoint                            *)
(* ------------------------------------------------------------------ *)

\* the key part of the input: what precedes the first '@'
KeyPart ==
  Split(endpoint, "@")[1]

\* C10 (parser totality) as stated: every call ends in Ok or in one of the
\* three errors, and a key part that is valid hex of a length other than 64
\* ends in the hex error.
ParserTotal ==
  parsed # NotCalled =>
    /\ parsed.status \in {"Ok", "PK is not hex",
                          "URL not in form PK@host:port",
                          "cannot parse host:port"}
    /\ (HexDecode(KeyPart).ok /\ Len(KeyPart) # 2 * PkBytes) =>
         parsed.status = "PK is not hex"

\* the input split on '@'
Parts ==
  Split(endpoint, "@")

\* the call came back, with Ok or with an error
Returned ==
  parsed # NotCalled /\ parsed.status # "panic: unwrap on Err"

\* C11 as stated, for the calls that return: whenever splitting the input
\* on '@' does not yield exactly two parts the call ends in the error
\* "URL not in form PK@host:port": so for an input with no '@' (not the hex
\* or the address error), and so for an input with two or more '@' (which
\* is not parsed from its first two parts).
MalformedUrlUnlessTwoParts ==
  (Returned /\ Len(Parts) # 2) =>
    parsed.status = "URL not in form PK@host:port"

(* ------------------------------------------------------------------ *)
(* Properties of the healer loop                                       *)
(* ------------------------------------------------------------------ *)

\* the healing step that is ending now ends the way `how` says
StepEnds(how) ==
  healer.pc \in {"refresh", "dial"} /\ healer'.pc = "while"
    /\ healer'.last = how

\* the last healing step ended the way `how` says and the healer is back at
\* the `while`
StepEnded(how) ==
  healer.pc = "while" /\ healer.last = how

\* C12 as stated: under use_bridges, when the first descriptor of the
\* shuffled list is direct the healing step leaves dead_count and the
\* multiplex as they are and dials nothing, and the healer then issues no
\* directory refresh and no dial before the next outer-loop wake: from the
\* `while` it goes to wait_activity.
PolicyStopEndsRound ==
  [][/\ StepEnds("stopped") =>
          /\ use_bridges
          /\ healer'.dead_count = healer.dead_count
          /\ mux' = mux /\ attached' = attached
     /\ StepEnded("stopped") => healer'.pc \in {"while", "wait_activity"}]_vars

\* C13 as stated: when the directory refresh or the replacement dial fails,
\* the healing step leaves dead_count as it is and attaches no pipe, and the
\* retry waits for the next outer-loop wake: from the `while` the healer
\* goes to wait_activity.
FailedStepWaitsForWake ==
  [][/\ StepEnds("failed") =>
          /\ healer'.dead_count = healer.dead_count
          /\ mux' = mux /\ attached' = attached
     /\ StepEnded("failed") => healer'.pc \in {"while", "wait_activity"}]_vars

\* the positions at which the healer loop is still going
HealerLoopPositions ==
  {"wait_activity", "sleep", "upgrade", "while", "refresh", "dial"}

\* C14 as stated: when weak_multiplex.upgrade() fails the healer loop exits
\* by itself: the step that finds the multiplex gone takes the healer out
\* of the loop, to no further wait_activity, sleep, prune, directory call or
\* dial.
HealerExitsOnFailedUpgrade ==
  [][(healer.pc = "upgrade" /\ ~MuxAlive /\ healer' # healer) =>
       healer'.pc \notin HealerLoopPositions]_vars

\* the healer moves to position `to`
HealerEnters(to) ==
  healer'.pc = to /\ healer.pc # to

DeadCountTracksReplacements ==
  [][healer'.dead_count < healer.dead_count =>
       /\ healer'.dead_count = healer.dead_count - 1
       /\ mux'.live = mux.live + 1
       /\ Pipe("heal", 0, healer.first, healer.meta) \in attached']_vars

\* C17 as stated (status callback): every dial that has reached the pipe
\* constructor's connect, by an initial task or by the healer, has invoked
\* the status callback with PreConnect for its bridge.
PreConnectBeforeConnect ==
  /\ \A i \in DOMAIN tasks :
       tasks[i].state = "connecting" => PreConnect(bridges[i]) \in tasks[i].cb
  /\ healer.pc = "dial" => PreConnect(healer.first) \in healer.cb

\* the positions between a successful upgrade and the end of the `while`
HealerRound ==
  {"while", "refresh", "dial"}

\* the strong references that are not the healer's
OwnersBesidesHealer ==
  Card(caller_holds)
  + Cardinality({i \in DOMAIN tasks : tasks[i].state \in {"spawned", "connecting"}})

\* C18 (weak reference of the healer): the healer holds a strong reference
\* exactly while it is between a successful upgrade and the end of that
\* iteration's replacement loop; blocked in wait_activity or in the dwell
\* sleep it holds none, and the strong count is then the caller's reference
\* plus one per in-flight initial dial task.
HealerHoldsOnlyInRound ==
  /\ healer.holds <=> healer.pc \in HealerRound
  /\ healer.pc \in {"wait_activity", "sleep"} =>
       /\ ~healer.holds
       /\ StrongCount = OwnersBesidesHealer

\* the healer is back at its wait after a round that attached a replacement,
\* while the caller and an initial dial task still hold the multiplex
IdleAfterRoundWitness ==
  /\ healer.pc \in {"wait_activity", "sleep"}
  /\ \E p \in attached : p.by = "heal"
  /\ caller_holds
  /\ \E i \in DOMAIN tasks : tasks[i].state \in {"spawned", "connecting"}

\* a "direct" obfs-udp descriptor whose key blob decodes
DirectKeyed(b) ==
  /\ b.alloc_group = "direct"
  /\ b.protocol = "sosistab2-obfsudp"
  /\ Deserialize(b.sosistab_key).ok

\* the list fetched at assembly is non-empty, all "direct", with a keyed entry
AllDirectList ==
  /\ asm_pc \notin {"get_exit", "get_bridges"}
  /\ Len(bridges) > 0
  /\ \A i \in 1..Len(bridges) : bridges[i].alloc_group = "direct"
  /\ \E i \in 1..Len(bridges) : DirectKeyed(bridges[i])

\* C19 (all-direct list under bridges-only policy): the emptiness check and
\* the key scan see the unfiltered list, so the multiplex is built with the
\* key of a direct bridge, no initial dial is spawned, and get_session
\* installs the healer and returns Ok.
AllDirectStillAssembles ==
  (use_bridges /\ AllDirectList) =>
    /\ mux.created
    /\ \E i \in 1..Len(bridges) :
         /\ DirectKeyed(bridges[i])
         /\ mux.peer_key = Deserialize(bridges[i].sosistab_key).val[2]
    /\ \A i \in DOMAIN tasks : tasks[i].spawns = 0 /\ tasks[i].state = "none"
    /\ attached = {}
    /\ asm_pc = "done" => (result = "Ok" /\ healer.pc # "none")

\* get_session has returned Ok for a two-entry all-direct list under
\* bridges-only policy
AllDirectReturnedWitness ==
  /\ use_bridges
  /\ AllDirectList
  /\ Len(bridges) = 2
  /\ asm_pc = "done"
  /\ result = "Ok"
  /\ healer.pc = "sleep"

\* initial dial task i has been spawned and has not finished
Dialing(ts, i) ==
  i \in DOMAIN ts /\ ts[i].state \in {"spawned", "connecting"}

\* C20 (in-flight dials keep the multiplex): while an initial dial task is
\* in flight the multiplex is not destroyed, so its drop friend, the healer,
\* is not cancelled, whether or not the caller still holds its reference;
\* and a dial that succeeds after the caller's drop attaches its pipe to
\* the multiplex.
InFlightDialsKeepMultiplex ==
  [][/\ (\E i \in 1..MaxBridges : Dialing(tasks', i)) =>
          healer'.pc # "cancelled"
     /\ \A i \in 1..MaxBridges :
          (/\ ~caller_holds
           /\ Dialing(tasks, i)
           /\ ~Dialing(tasks', i)
           /\ tasks'[i].res = "ok") =>
             /\ mux'.created
             /\ mux'.live = mux.live + 1
             /\ Pipe("init", i, bridges[i], tasks[i].meta) \in attached']_vars

\* the caller has dropped its reference, an initial dial is still at the
\* pipe constructor, and the healer waits, uncancelled and holding nothing
DialOutlivesCallerWitness ==
  /\ asm_pc = "done"
  /\ result = "Ok"
  /\ ~caller_holds
  /\ ~healer.holds
  /\ healer.pc \in {"wait_activity", "sleep"}
  /\ \E i \in DOMAIN tasks : tasks[i].state = "connecting"

====
